---- MODULE Spec2Model ----
(***************************************************************************)
(* Bulk Emails Verifier: the Domain Resolver (modules/domain_lookup.py),   *)
(* the SMTP Prober (modules/smtp_checker.py) and the batch loop of         *)
(* main.py, as one sequential state machine.  The network (DNS answers,    *)
(* SMTP sessions) is the environment: every reply is chosen                *)
(* nondeterministically when the call is made; only the MX records of the  *)
(* queried domain and the presence of the resolver library are fixed for   *)
(* a run.  Strings the code inspects (domains, host names, addresses) are  *)
(* sequences of one-character strings.                                     *)
(***************************************************************************)
EXTENDS Integers, Sequences, FiniteSets, TLC

\* ------------------------------------------------------------------ bounds

\* Longest domain argument handed directly to lookup_domain / check_smtp_server.
MaxLen == 2

\* Longest batch of addresses read by main.
MaxEmails == 2

\* ----------------------------------------------------------------- strings

RECURSIVE SeqsUpTo(_, _)
SeqsUpTo(S, n) ==
    IF n = 0 THEN {<<>>}
    ELSE LET shorter == SeqsUpTo(S, n - 1)
         IN  shorter \cup {Append(s, c) : s \in {t \in shorter : Len(t) = n - 1}, c \in S}

\* Characters of a domain argument: a blank, an upper-case and a lower-case letter.
DomChars == {" ", "A", "a"}

DomainInputs == SeqsUpTo(DomChars, MaxLen)

IsSpace(c) == c = " "

RECURSIVE LStrip(_)
LStrip(s) == IF s # <<>> /\ IsSpace(Head(s)) THEN LStrip(Tail(s)) ELSE s

RECURSIVE RStrip(_)
RStrip(s) ==
    IF s # <<>> /\ IsSpace(s[Len(s)]) THEN RStrip(SubSeq(s, 1, Len(s) - 1)) ELSE s

\* str.strip()
Strip(s) == RStrip(LStrip(s))

LowerChar(c) == IF c = "A" THEN "a" ELSE c

\* str.lower()
Lower(s) == [i \in 1..Len(s) |-> LowerChar(s[i])]

\* A mutation of Normalize: the argument is used as given.
NormalizeIdentity(s) == s

\* domain.strip().lower()
Normalize(s) == Lower(Strip(s))

RECURSIVE RStripDots(_)
RStripDots(s) ==
    IF s # <<>> /\ s[Len(s)] = "." THEN RStripDots(SubSeq(s, 1, Len(s) - 1)) ELSE s

\* A mutation of ExchangeHost: the trailing root dot is kept.
ExchangeHostKeepDot(raw) == raw

\* str(rdata.exchange).rstrip(".")
ExchangeHost(raw) == RStripDots(raw)

ExchangeHosts(records) == [i \in 1..Len(records) |-> ExchangeHost(records[i])]

\* ------------------------------------------------------------- environment

\* What an MX query can answer, when the resolver library is there: exchange
\* names as the resolver renders them, absolute, with the root dot; "." alone
\* is the null MX.
MxAnswers ==
    { <<>>, << <<"m", ".">> >>, << <<".">> >>, << <<"m", ".">>, <<"n", ".">> >> }

MxErrors == {"NXDOMAIN", "LifetimeTimeout"}

\* The ways resolver.resolve(domain, "MX") can end for a domain whose records
\* are `zone`: with the records, or with an exception.
MxReplies(zone) ==
    {[kind |-> "answer", records |-> zone, exc |-> "none"]}
    \cup {[kind |-> "error", records |-> <<>>, exc |-> e] : e \in MxErrors}

ImportErrorReply == [kind |-> "error", records |-> <<>>, exc |-> "ImportError"]

\* Reply codes of NOOP, on both sides of the 200 and 400 limits.
ReplyCodes == {199, 200, 399, 400}

ConnFailures ==
    {"socket.timeout", "ConnectionRefusedError", "SMTPConnectError",
     "SMTPServerDisconnected", "gaierror"}

NoopFailures == {"socket.timeout", "SMTPServerDisconnected", "SMTPDataError"}

QuitOutcomes == {"221", "other_code", "SMTPServerDisconnected", "socket.timeout"}

\* One SMTP session as the network plays it: the connection (and greeting),
\* the NOOP and the QUIT sent when the with-block is left.
ProbeOutcomes ==
    {[conn |-> c, noop |-> "none", code |-> 0, quit |-> "none"] : c \in ConnFailures}
    \cup {[conn |-> "connected", noop |-> n, code |-> 0, quit |-> q] :
              n \in NoopFailures, q \in QuitOutcomes}
    \cup {[conn |-> "connected", noop |-> "reply", code |-> k, quit |-> q] :
              k \in ReplyCodes, q \in QuitOutcomes}

SocketOutcomes == {"resolved", "gaierror", "UnicodeError"}

\* --------------------------------------------------- modules/domain_lookup.py

\* A mutation of IsImportError: every exception matches the clause.
IsAnyException(exc) == exc # "none"

\* `except ImportError`: in _resolve_with_dnspython, which re-raises it, and in
\* lookup_domain, which falls back on it.
IsImportError(exc) == exc = "ImportError"

\* A mutation of DnspythonStatus: an answer is ok whatever it holds.
DnspythonStatusAlwaysOk(mx_records) == "ok"

\* "ok" if mx_records else "invalid"
DnspythonStatus(mx_records) == IF mx_records # <<>> THEN "ok" ELSE "invalid"

\* _resolve_with_dnspython: the result returned, or the exception re-raised.
resolve_with_dnspython(reply) ==
    IF reply.kind = "answer"
    THEN LET mx_records == ExchangeHosts(reply.records)
         IN  [raised     |-> "none",
              status     |-> DnspythonStatus(mx_records),
              message    |-> [text |-> IF mx_records # <<>> THEN "MX records found."
                                       ELSE "No MX records found.",
                              exc  |-> "none"],
              mx_records |-> mx_records,
              method     |-> "dnspython"]
    ELSE IF IsImportError(reply.exc)
    THEN [raised     |-> reply.exc,
          status     |-> "none",
          message    |-> [text |-> "", exc |-> reply.exc],
          mx_records |-> <<>>,
          method     |-> "none"]
    ELSE [raised     |-> "none",
          status     |-> "invalid",
          message    |-> [text |-> "MX lookup failed: {exc}", exc |-> reply.exc],
          mx_records |-> <<>>,
          method     |-> "dnspython"]

\* A mutation of resolve_with_socket: only the name-resolution error is caught.
resolve_with_socket_gaierror_only(outcome) ==
    IF outcome = "resolved"
    THEN [raised     |-> "none",
          status     |-> "ok",
          message    |-> [text |-> "Domain resolves via A/AAAA records.", exc |-> "none"],
          mx_records |-> <<>>,
          method     |-> "socket"]
    ELSE IF outcome = "gaierror"
    THEN [raised     |-> "none",
          status     |-> "invalid",
          message    |-> [text |-> "Domain does not resolve: {exc}", exc |-> outcome],
          mx_records |-> <<>>,
          method     |-> "socket"]
    ELSE [raised     |-> outcome,
          status     |-> "none",
          message    |-> [text |-> "", exc |-> outcome],
          mx_records |-> <<>>,
          method     |-> "none"]

\* _resolve_with_socket: the result for each way getaddrinfo can end.
resolve_with_socket(outcome) ==
    IF outcome = "resolved"
    THEN [raised     |-> "none",
          status     |-> "ok",
          message    |-> [text |-> "Domain resolves via A/AAAA records.", exc |-> "none"],
          mx_records |-> <<>>,
          method     |-> "socket"]
    ELSE IF outcome = "gaierror"
    THEN [raised     |-> "none",
          status     |-> "invalid",
          message    |-> [text |-> "Domain does not resolve: {exc}", exc |-> outcome],
          mx_records |-> <<>>,
          method     |-> "socket"]
    ELSE [raised     |-> "none",
          status     |-> "invalid",
          message    |-> [text |-> "Unexpected DNS error: {exc}", exc |-> outcome],
          mx_records |-> <<>>,
          method     |-> "socket"]

\* lookup_domain's answer to an empty domain.
EmptyDomainResult ==
    [raised     |-> "none",
     status     |-> "invalid",
     message    |-> [text |-> "Domain name is empty.", exc |-> "none"],
     mx_records |-> <<>>,
     method     |-> "none"]

NoLookupResult ==
    [raised     |-> "none",
     status     |-> "none",
     message    |-> [text |-> "", exc |-> "none"],
     mx_records |-> <<>>,
     method     |-> "none"]

\* --------------------------------------------------- modules/smtp_checker.py

\* A mutation of get_mx_hosts_via_dnspython: a resolution error is let out.
get_mx_hosts_propagating(reply) ==
    IF reply.kind = "answer"
    THEN [raised |-> "none", hosts |-> ExchangeHosts(reply.records)]
    ELSE [raised |-> reply.exc, hosts |-> <<>>]

\* _get_mx_hosts_via_dnspython: the exchange hosts, or [] on any exception.
get_mx_hosts_via_dnspython(reply) ==
    IF reply.kind = "answer"
    THEN [raised |-> "none", hosts |-> ExchangeHosts(reply.records)]
    ELSE [raised |-> "none", hosts |-> <<>>]

\* _guess_mx_host_from_domain
guess_mx_host_from_domain(domain) ==
    << <<"m", "a", "i", "l", ".">> \o domain, <<"m", "x", ".">> \o domain, domain >>

\* A mutation of CandidateHosts: the heuristic hosts are appended to the MX hosts.
CandidateHostsAppended(mx_hosts, domain) ==
    mx_hosts \o guess_mx_host_from_domain(domain)

\* hosts = _get_mx_hosts_via_dnspython(...); if not hosts: hosts = _guess_...
CandidateHosts(mx_hosts, domain) ==
    IF mx_hosts = <<>> THEN guess_mx_host_from_domain(domain) ELSE mx_hosts

\* smtplib.SMTP(host=...) connects only when host is non-empty.
Connects(host) == host # <<>>

\* The exception that leaves the with-statement, "none" when it is left by a
\* return.  SMTP.__exit__ sends QUIT: a reply other than 221 raises
\* SMTPResponseException, a disconnect is swallowed, and what __exit__ raises
\* replaces what the block raised.
SessionException(host, outcome) ==
    IF ~Connects(host) THEN "SMTPServerDisconnected"
    ELSE IF outcome.conn # "connected" THEN outcome.conn
    ELSE IF outcome.quit = "other_code" THEN "SMTPResponseException"
    ELSE IF outcome.quit = "socket.timeout" THEN "socket.timeout"
    ELSE IF outcome.noop # "reply" THEN outcome.noop
    ELSE "none"

\* except (socket.timeout, smtplib.SMTPServerDisconnected, smtplib.SMTPConnectError)
CaughtAsUnreachable(exc) ==
    exc \in {"socket.timeout", "SMTPServerDisconnected", "SMTPConnectError"}

\* 200 <= code < 400
CodeIsOk(code) == 200 <= code /\ code < 400

\* _probe_smtp_host
probe_smtp_host(host, outcome) ==
    LET exc == SessionException(host, outcome)
    IN  IF exc = "none"
        THEN [status  |-> IF CodeIsOk(outcome.code) THEN "ok" ELSE "unreachable",
              message |-> [text |-> "SMTP server {host} responded with code {code}.",
                           host |-> host, code |-> outcome.code, exc |-> "none"]]
        ELSE IF CaughtAsUnreachable(exc)
        THEN [status  |-> "unreachable",
              message |-> [text |-> "SMTP server {host} is unreachable or disconnected.",
                           host |-> host, code |-> 0, exc |-> "none"]]
        ELSE [status  |-> "unknown",
              message |-> [text |-> "Unexpected SMTP error while connecting to {host}: {exc}",
                           host |-> host, code |-> 0, exc |-> exc]]

\* A mutation of ClosedOnExit: the connection is closed only after a clean session.
ClosedOnCleanExitOnly(outcome) == outcome.noop = "reply" /\ outcome.quit = "221"

\* with smtplib.SMTP(...) as server: SMTP.__exit__ ends in `finally: self.close()`,
\* however the block and the QUIT went.
ClosedOnExit(outcome) == outcome.noop \in NoopFailures \cup {"reply"}

\* A mutation of NextCandidate: a host that gave no conclusive result is tried again.
SameCandidateAgain(i) == i

\* for host in hosts: the loop moves to the next candidate.
NextCandidate(i) == i + 1

\* A mutation of Conclusive: only ok ends the iteration.
ConclusiveOnlyOk(status) == status = "ok"

\* A mutation of Conclusive: the first result ends the iteration, whatever it is.
ConclusiveAny(status) == status \in {"ok", "unreachable", "unknown"}

\* result["status"] in ("ok", "unreachable")
Conclusive(status) == status \in {"ok", "unreachable"}

EmptyDomainProbe ==
    [status  |-> "unknown",
     message |-> [text |-> "Domain is empty; cannot perform SMTP check.",
                  host |-> <<>>, code |-> 0, exc |-> "none"]]

\* The result when every candidate was probed without a conclusive answer.
ExhaustedProbe(domain) ==
    [status  |-> "unknown",
     message |-> [text |-> "Unable to determine SMTP status for domain {domain}.",
                  host |-> <<>>, code |-> 0, exc |-> "none"]]

NoProbeResult ==
    [status  |-> "none",
     message |-> [text |-> "", host |-> <<>>, code |-> 0, exc |-> "none"]]

\* ------------------------------------------ modules/validator.py (from the spec)

\* The addresses a batch is made of: one well-formed, with an upper-case
\* domain, and one whose domain has no ".".
Addresses == { <<"u", "@", "A", ".", "b">>, <<"u", "@", "b">> }

Batches == SeqsUpTo(Addresses, MaxEmails)

Positions(email, c) == {i \in 1..Len(email) : email[i] = c}

\* Format stage: exactly one "@", non-empty local and domain parts, a "." in
\* the domain.
FormatValid(email) ==
    /\ Cardinality(Positions(email, "@")) = 1
    /\ LET at == CHOOSE i \in Positions(email, "@") : TRUE
       IN  /\ at > 1
           /\ at < Len(email)
           /\ \E i \in Positions(email, ".") : i > at

\* The domain portion, trimmed and lower-cased.
DomainOf(email) ==
    LET at == CHOOSE i \in Positions(email, "@") : TRUE
    IN  Lower(Strip(SubSeq(email, at + 1, Len(email))))

FormatInvalidVerdict(email) ==
    [email          |-> email,
     email_status   |-> "invalid",
     message        |-> [text |-> "format", exc |-> "none"],
     format         |-> "invalid",
     mailbox_status |-> "unknown",
     mailbox_type   |-> "unknown",
     domain         |-> <<>>]

DomainInvalidVerdict(email, lookup) ==
    [email          |-> email,
     email_status   |-> "invalid",
     message        |-> [text |-> "domain", exc |-> "none"],
     format         |-> "valid",
     mailbox_status |-> "invalid",
     mailbox_type   |-> "unknown",
     domain         |-> DomainOf(email)]

\* A mutation of MailboxVerdict: an unknown probe is reported as invalid.
MailboxVerdictUnknownInvalid(email, probe) ==
    [email          |-> email,
     email_status   |-> IF probe.status = "ok" THEN "valid" ELSE "invalid",
     message        |-> [text |-> "mailbox", exc |-> "none"],
     format         |-> "valid",
     mailbox_status |-> probe.status,
     mailbox_type   |-> "unknown",
     domain         |-> DomainOf(email)]

MailboxVerdict(email, probe) ==
    [email          |-> email,
     email_status   |-> IF probe.status = "ok" THEN "valid"
                        ELSE IF probe.status = "unknown" THEN "unknown"
                        ELSE "invalid",
     message        |-> [text |-> "mailbox", exc |-> "none"],
     format         |-> "valid",
     mailbox_status |-> probe.status,
     mailbox_type   |-> "unknown",
     domain         |-> DomainOf(email)]

NoVerdict ==
    [email          |-> <<>>,
     email_status   |-> "none",
     message        |-> [text |-> "", exc |-> "none"],
     format         |-> "none",
     mailbox_status |-> "none",
     mailbox_type   |-> "none",
     domain         |-> <<>>]

\* ------------------------------------------------------------------ main.py

\* A mutation of ErrorVerdict: the failed address is reported invalid.
ErrorVerdictInvalid(email, e) ==
    [email          |-> email,
     email_status   |-> "invalid",
     message        |-> [text |-> "Internal error during validation: {exc}", exc |-> e],
     format         |-> "unknown",
     mailbox_status |-> "unknown",
     mailbox_type   |-> "unknown",
     domain         |-> <<>>]

\* The verdict main builds in its except branch.
ErrorVerdict(email, e) ==
    [email          |-> email,
     email_status   |-> "unknown",
     message        |-> [text |-> "Internal error during validation: {exc}", exc |-> e],
     format         |-> "unknown",
     mailbox_status |-> "unknown",
     mailbox_type   |-> "unknown",
     domain         |-> <<>>]

\* "dns_timeout": 5, "smtp_timeout": 8 are the defaults; a configuration file
\* may set both to any integer >= 0.
SettingsChoices ==
    { [dns_timeout |-> 5, smtp_timeout |-> 8], [dns_timeout |-> 0, smtp_timeout |-> 0] }

\* -------------------------------------------------------------------- state

VARIABLES
    mode,                \* the entry point exercised: "lookup", "smtp" or "batch"
    dnsAvailable,        \* whether `import dns.resolver` succeeds in this runtime
    mxZone,              \* the MX records the queried domain has in the DNS
    settings,            \* the two timeouts
    sockDefaultTimeout,  \* socket.getdefaulttimeout(): <<>> is None, <<t>> is t
    openConns,           \* SMTP connections of the process that are open
    stable,              \* whether the network answers a repeated question alike
    netMemo,             \* under stable conditions, the answers given so far
    pc,                  \* position of the one thread of control
    exc,                 \* the exception propagating, "none" when there is none
    callArg,             \* the domain argument of the running lookup / probe call
    domain,              \* the callee's local `domain`, after strip().lower()
    lookupResult,        \* what lookup_domain returned
    hosts,               \* check_smtp_server's candidate list
    hostIdx,             \* position of the for loop in hosts
    smtpResult,          \* what check_smtp_server returned
    probes,              \* hosts probed by the running call, with each result's status
    lastProbe,           \* the last session as the network played it, and its result
    lastMx,              \* the reply to lookup_domain's MX query
    lastSock,            \* how lookup_domain's getaddrinfo ended, "none" before it
    smtpMx,              \* the reply to check_smtp_server's MX query
    netlog,              \* network calls made on behalf of the current address
    emails,              \* the batch
    idx,                 \* addresses of the batch already handled
    results,             \* main's results list
    verdict              \* what validate returned

vars ==
    << mode, dnsAvailable, mxZone, settings, sockDefaultTimeout, openConns, stable, netMemo,
       pc, exc, callArg, domain,
       lookupResult, hosts, hostIdx, smtpResult, probes, lastProbe, lastMx, lastSock, smtpMx,
       netlog, emails, idx, results, verdict >>

envVars == << mode, dnsAvailable, mxZone, settings, emails, stable >>

lookupVars == << lookupResult, lastMx, lastSock >>

smtpVars == << hosts, hostIdx, smtpResult, probes, lastProbe, smtpMx >>

batchVars == << idx, results, verdict >>

\* The session of a host that is never connected to (an empty host name).
NoSession == [conn |-> "not_connected", noop |-> "none", code |-> 0, quit |-> "none"]

NoProbe == [host |-> <<>>, outcome |-> NoSession, status |-> "none"]

NoMx == [kind |-> "none", records |-> <<>>, exc |-> "none"]

NetCall(call, target, timeout) == [call |-> call, target |-> target, timeout |-> timeout]

Locals ==
    /\ exc = "none"
    /\ domain = <<>>
    /\ lookupResult = NoLookupResult
    /\ hosts = <<>>
    /\ hostIdx = 0
    /\ smtpResult = NoProbeResult
    /\ probes = <<>>
    /\ lastProbe = NoProbe
    /\ lastMx = NoMx
    /\ lastSock = "none"
    /\ smtpMx = NoMx
    /\ netlog = <<>>
    /\ idx = 0
    /\ results = <<>>
    /\ verdict = NoVerdict

Init ==
    /\ dnsAvailable \in BOOLEAN
    /\ mxZone \in MxAnswers
    /\ settings \in SettingsChoices
    /\ sockDefaultTimeout = <<>>
    /\ openConns = 0
    /\ stable = FALSE
    /\ netMemo = <<>>
    /\ Locals
    /\ \/ /\ mode = "lookup"
          /\ pc = "lookup_domain"
          /\ callArg \in DomainInputs
          /\ emails = <<>>
       \/ /\ mode = "smtp"
          /\ pc = "check_smtp_server"
          /\ callArg \in DomainInputs
          /\ emails = <<>>
       \/ /\ mode = "batch"
          /\ pc = "main"
          /\ callArg = <<>>
          /\ emails \in Batches

\* Where a callee hands control back: to validate in a batch, to the caller
\* of the entry point otherwise.
LookupReturnsTo == IF mode = "batch" THEN "validate_domain" ELSE "done"

SmtpReturnsTo == IF mode = "batch" THEN "validate_mailbox" ELSE "done"

\* Where an exception that nothing in the callee catches ends up: in main's
\* except branch in a batch, at the caller of the entry point otherwise.
RaisesTo == IF mode = "batch" THEN "main_except" ELSE "raised"

\* The replies an MX query can get in this runtime: without the library the
\* import fails before any query is sent.
MxRepliesHere == IF dnsAvailable THEN MxReplies(mxZone) ELSE {ImportErrorReply}

\* What smtplib.SMTP(host, 25, timeout) can do, and what the session on an open
\* connection can; the stable runs take one outcome of each kind the probe
\* tells apart.
ConnAnswers ==
    IF stable THEN {"connected", "socket.timeout", "ConnectionRefusedError"}
    ELSE ConnFailures \cup {"connected"}

SessionAnswers ==
    IF stable
    THEN {o \in ProbeOutcomes :
            /\ o.conn = "connected"
            /\ \/ o.noop = "reply" /\ o.code \in {200, 400} /\ o.quit \in {"221", "other_code"}
               \/ o.noop = "SMTPDataError" /\ o.quit = "221"}
    ELSE {o \in ProbeOutcomes : o.conn = "connected"}

\* Stable network conditions: a question the network has answered gets the
\* same answer when it is asked again.
Answers(question, all) ==
    IF stable /\ question \in DOMAIN netMemo THEN {netMemo[question]} ELSE all

Remember(question, answer) ==
    IF stable THEN netMemo @@ (question :> answer) ELSE netMemo

LogMxQuery(timeout) ==
    IF dnsAvailable THEN Append(netlog, NetCall("mx_query", domain, timeout)) ELSE netlog

\* ------------------------------------------------------------ lookup_domain

\* lookup_domain, to the empty-domain return.
LookupStart ==
    /\ pc = "lookup_domain"
    /\ domain' = Normalize(callArg)
    /\ IF domain' = <<>>
       THEN /\ lookupResult' = EmptyDomainResult
            /\ pc' = LookupReturnsTo
       ELSE /\ lookupResult' = lookupResult
            /\ pc' = "resolve_with_dnspython"
    /\ UNCHANGED << envVars, sockDefaultTimeout, openConns, netMemo, exc, callArg, lastMx, lastSock, smtpVars, netlog,
                    batchVars >>

\* try: return _resolve_with_dnspython(domain, timeout) / except ImportError
ResolveWithDnspython ==
    /\ pc = "resolve_with_dnspython"
    /\ \E reply \in Answers(<<"mx_lookup", domain>>, MxRepliesHere) :
          LET r == resolve_with_dnspython(reply)
          IN  /\ lastMx' = reply
              /\ netMemo' = Remember(<<"mx_lookup", domain>>, reply)
              /\ netlog' = LogMxQuery(settings.dns_timeout)
              /\ IF r.raised = "none"
                 THEN /\ lookupResult' = r
                      /\ pc' = LookupReturnsTo
                      /\ exc' = exc
                 ELSE IF IsImportError(r.raised)
                 THEN /\ lookupResult' = lookupResult
                      /\ pc' = "resolve_with_socket"
                      /\ exc' = exc
                 ELSE /\ lookupResult' = lookupResult
                      /\ pc' = RaisesTo
                      /\ exc' = r.raised
    /\ UNCHANGED << envVars, sockDefaultTimeout, openConns, callArg, domain, lastSock, smtpVars,
                    batchVars >>

\* A mutation of ResolveWithSocket: a call that finds the process-wide timeout
\* an earlier call left behind fails to resolve, whatever the network answers.
ResolveWithSocketAfterEarlierCall ==
    /\ pc = "resolve_with_socket"
    /\ sockDefaultTimeout' = << settings.dns_timeout >>
    /\ \E outcome \in Answers(<<"getaddrinfo", domain>>, SocketOutcomes) :
          LET r == resolve_with_socket(IF sockDefaultTimeout = <<>> THEN outcome
                                       ELSE "gaierror")
          IN  /\ lastSock' = outcome
              /\ netMemo' = Remember(<<"getaddrinfo", domain>>, outcome)
              /\ netlog' = Append(netlog, NetCall("getaddrinfo", domain,
                                                  settings.dns_timeout))
              /\ lookupResult' = r
              /\ pc' = LookupReturnsTo
              /\ exc' = exc
    /\ UNCHANGED << envVars, openConns, callArg, domain, lastMx, smtpVars, batchVars >>

\* return _resolve_with_socket(domain, timeout)
ResolveWithSocket ==
    /\ pc = "resolve_with_socket"
    /\ sockDefaultTimeout' = << settings.dns_timeout >>
    /\ \E outcome \in Answers(<<"getaddrinfo", domain>>, SocketOutcomes) :
          LET r == resolve_with_socket(outcome)
          IN  /\ lastSock' = outcome
              /\ netMemo' = Remember(<<"getaddrinfo", domain>>, outcome)
              /\ netlog' = Append(netlog, NetCall("getaddrinfo", domain,
                                                  settings.dns_timeout))
              /\ IF r.raised = "none"
                 THEN /\ lookupResult' = r
                      /\ pc' = LookupReturnsTo
                      /\ exc' = exc
                 ELSE /\ lookupResult' = lookupResult
                      /\ pc' = RaisesTo
                      /\ exc' = r.raised
    /\ UNCHANGED << envVars, openConns, callArg, domain, lastMx, smtpVars, batchVars >>

\* -------------------------------------------------------- check_smtp_server

\* check_smtp_server, to the empty-domain return.
SmtpStart ==
    /\ pc = "check_smtp_server"
    /\ domain' = Normalize(callArg)
    /\ IF domain' = <<>>
       THEN /\ smtpResult' = EmptyDomainProbe
            /\ pc' = SmtpReturnsTo
       ELSE /\ smtpResult' = smtpResult
            /\ pc' = "get_mx_hosts"
    /\ UNCHANGED << envVars, sockDefaultTimeout, openConns, netMemo, exc, callArg, lookupVars, hosts, hostIdx,
                    probes, lastProbe, smtpMx, netlog, batchVars >>

\* hosts = _get_mx_hosts_via_dnspython(domain, timeout), then the heuristic
GetMxHosts ==
    /\ pc = "get_mx_hosts"
    /\ \E reply \in Answers(<<"mx_smtp", domain>>, MxRepliesHere) :
          LET r == get_mx_hosts_via_dnspython(reply)
          IN  /\ smtpMx' = reply
              /\ netMemo' = Remember(<<"mx_smtp", domain>>, reply)
              /\ netlog' = LogMxQuery(settings.smtp_timeout)
              /\ IF r.raised = "none"
                 THEN /\ hosts' = CandidateHosts(r.hosts, domain)
                      /\ hostIdx' = 1
                      /\ pc' = "probe_loop"
                      /\ exc' = exc
                 ELSE /\ hosts' = hosts
                      /\ hostIdx' = hostIdx
                      /\ pc' = RaisesTo
                      /\ exc' = r.raised
    /\ UNCHANGED << envVars, sockDefaultTimeout, openConns, callArg, domain, lookupVars, smtpResult,
                    probes, lastProbe, batchVars >>

\* The end of one _probe_smtp_host call inside `for host in hosts`: the result
\* is returned when conclusive, else the loop moves on.
FinishProbe(host, outcome) ==
    LET result == probe_smtp_host(host, outcome)
    IN  /\ probes' = Append(probes, [host |-> host, status |-> result.status])
        /\ lastProbe' = [host |-> host, outcome |-> outcome, status |-> result.status]
        /\ IF Conclusive(result.status)
           THEN /\ smtpResult' = result
                /\ pc' = SmtpReturnsTo
                /\ hostIdx' = hostIdx
           ELSE /\ smtpResult' = smtpResult
                /\ pc' = "probe_loop"
                /\ hostIdx' = NextCandidate(hostIdx)

\* One turn of `for host in hosts`, to the end of smtplib.SMTP(host, 25, timeout):
\* the connection fails, and the probe is over, or it stands.
ProbeHost ==
    /\ pc = "probe_loop"
    /\ hostIdx <= Len(hosts)
    /\ LET host == hosts[hostIdx]
       IN  IF ~Connects(host)
           THEN /\ FinishProbe(host, NoSession)
                /\ UNCHANGED << netlog, openConns, netMemo >>
           ELSE /\ netlog' = Append(netlog, NetCall("smtp_connect", host,
                                                   settings.smtp_timeout))
                /\ \E c \in Answers(<<"smtp_connect", host>>, ConnAnswers) :
                      /\ netMemo' = Remember(<<"smtp_connect", host>>, c)
                      /\ IF c = "connected"
                         THEN /\ openConns' = openConns + 1
                              /\ pc' = "smtp_session"
                              /\ UNCHANGED << probes, lastProbe, smtpResult, hostIdx >>
                         ELSE /\ FinishProbe(host, [conn |-> c, noop |-> "none",
                                                   code |-> 0, quit |-> "none"])
                              /\ openConns' = openConns
    /\ UNCHANGED << envVars, sockDefaultTimeout, exc, callArg, domain, lookupVars, hosts,
                    smtpMx, batchVars >>

\* The with-block on the open connection: NOOP, then SMTP.__exit__.
ProbeSession ==
    /\ pc = "smtp_session"
    /\ \E outcome \in Answers(<<"smtp_session", hosts[hostIdx]>>, SessionAnswers) :
          /\ FinishProbe(hosts[hostIdx], outcome)
          /\ netMemo' = Remember(<<"smtp_session", hosts[hostIdx]>>, outcome)
          /\ openConns' = IF ClosedOnExit(outcome) THEN openConns - 1 ELSE openConns
    /\ UNCHANGED << envVars, sockDefaultTimeout, exc, callArg, domain, lookupVars, hosts,
                    smtpMx, netlog, batchVars >>

\* The loop ran out of hosts.
SmtpExhausted ==
    /\ pc = "probe_loop"
    /\ hostIdx > Len(hosts)
    /\ smtpResult' = ExhaustedProbe(domain)
    /\ pc' = SmtpReturnsTo
    /\ UNCHANGED << envVars, sockDefaultTimeout, openConns, netMemo, exc, callArg, domain, lookupVars, hosts,
                    hostIdx, probes, lastProbe, smtpMx, netlog, batchVars >>

\* --------------------------------------------------- validate (from the spec)

CurrentEmail == emails[idx + 1]

\* Stage 1: the format check; a well-formed address goes on to the resolver.
ValidateFormat ==
    /\ pc = "validate_format"
    /\ IF FormatValid(CurrentEmail)
       THEN /\ callArg' = DomainOf(CurrentEmail)
            /\ pc' = "lookup_domain"
            /\ verdict' = verdict
       ELSE /\ callArg' = callArg
            /\ pc' = "main_append"
            /\ verdict' = FormatInvalidVerdict(CurrentEmail)
    /\ UNCHANGED << envVars, sockDefaultTimeout, openConns, netMemo, exc, domain, lookupVars, smtpVars, netlog,
                    idx, results >>

\* A mutation of ValidateDomain: the prober is called whatever the resolver said.
ValidateDomainAlwaysProbes ==
    /\ pc = "validate_domain"
    /\ callArg' = DomainOf(CurrentEmail)
    /\ pc' = "check_smtp_server"
    /\ verdict' = verdict
    /\ UNCHANGED << envVars, sockDefaultTimeout, openConns, netMemo, exc, domain, lookupVars, smtpVars, netlog,
                    idx, results >>

\* Stage 2: the resolver's answer; status ok goes on to the prober.
ValidateDomain ==
    /\ pc = "validate_domain"
    /\ IF lookupResult.status = "ok"
       THEN /\ callArg' = DomainOf(CurrentEmail)
            /\ pc' = "check_smtp_server"
            /\ verdict' = verdict
       ELSE /\ callArg' = callArg
            /\ pc' = "main_append"
            /\ verdict' = DomainInvalidVerdict(CurrentEmail, lookupResult)
    /\ UNCHANGED << envVars, sockDefaultTimeout, openConns, netMemo, exc, domain, lookupVars, smtpVars, netlog,
                    idx, results >>

\* Stage 3: the verdict from the prober's answer.
ValidateMailbox ==
    /\ pc = "validate_mailbox"
    /\ verdict' = MailboxVerdict(CurrentEmail, smtpResult)
    /\ pc' = "main_append"
    /\ UNCHANGED << envVars, sockDefaultTimeout, openConns, netMemo, exc, callArg, domain, lookupVars,
                    smtpVars, netlog, idx, results >>

\* The locals of validate and of its callees, gone once validate is left.
FreshLocals ==
    /\ callArg' = <<>>
    /\ domain' = <<>>
    /\ lookupResult' = NoLookupResult
    /\ lastMx' = NoMx
    /\ lastSock' = "none"
    /\ hosts' = <<>>
    /\ hostIdx' = 0
    /\ smtpResult' = NoProbeResult
    /\ probes' = <<>>
    /\ lastProbe' = NoProbe
    /\ smtpMx' = NoMx
    /\ netlog' = <<>>
    /\ verdict' = NoVerdict

\* An unexpected exception anywhere in validate's own code; unwinding drops
\* the locals.
ValidateRaises ==
    /\ pc \in {"validate_format", "validate_domain", "validate_mailbox"}
    /\ exc' = "RuntimeError"
    /\ pc' = "main_except"
    /\ FreshLocals
    /\ UNCHANGED << envVars, sockDefaultTimeout, openConns, netMemo, idx, results >>

\* ------------------------------------------------------------------ main

\* if not emails: return 0 / results = []
MainStart ==
    /\ pc = "main"
    /\ pc' = IF emails = <<>> THEN "done" ELSE "main_loop"
    /\ results' = <<>>
    /\ UNCHANGED << envVars, sockDefaultTimeout, openConns, netMemo, exc, callArg, domain, lookupVars,
                    smtpVars, netlog, idx, verdict >>

\* for idx, email in enumerate(emails): try: result = validator.validate(email)
MainLoopNext ==
    /\ pc = "main_loop"
    /\ idx < Len(emails)
    /\ pc' = "validate_format"
    /\ UNCHANGED << envVars, sockDefaultTimeout, openConns, netMemo, exc, callArg, domain, lookupVars,
                    smtpVars, netlog, batchVars >>

\* results.append(result)
MainAppend ==
    /\ pc = "main_append"
    /\ results' = Append(results, verdict)
    /\ idx' = idx + 1
    /\ pc' = "main_loop"
    /\ FreshLocals
    /\ UNCHANGED << envVars, sockDefaultTimeout, openConns, netMemo, exc >>

\* A mutation of MainExcept: the failure is logged and the address skipped.
MainExceptSkips ==
    /\ pc = "main_except"
    /\ results' = results
    /\ exc' = "none"
    /\ idx' = idx + 1
    /\ pc' = "main_loop"
    /\ UNCHANGED << envVars, sockDefaultTimeout, openConns, netMemo, callArg, domain, lookupVars, smtpVars,
                    netlog, verdict >>

\* except Exception as exc: results.append({...})
MainExcept ==
    /\ pc = "main_except"
    /\ results' = Append(results, ErrorVerdict(CurrentEmail, exc))
    /\ exc' = "none"
    /\ idx' = idx + 1
    /\ pc' = "main_loop"
    /\ UNCHANGED << envVars, sockDefaultTimeout, openConns, netMemo, callArg, domain, lookupVars, smtpVars,
                    netlog, verdict >>

\* The loop is over: json_str = results_to_json(results)
MainLoopEnd ==
    /\ pc = "main_loop"
    /\ idx = Len(emails)
    /\ pc' = "done"
    /\ UNCHANGED << envVars, sockDefaultTimeout, openConns, netMemo, exc, callArg, domain, lookupVars,
                    smtpVars, netlog, batchVars >>

Next ==
    \/ LookupStart
    \/ ResolveWithDnspython
    \/ ResolveWithSocket
    \/ SmtpStart
    \/ GetMxHosts
    \/ ProbeHost
    \/ ProbeSession
    \/ SmtpExhausted
    \/ ValidateFormat
    \/ ValidateDomain
    \/ ValidateMailbox
    \/ ValidateRaises
    \/ MainStart
    \/ MainLoopNext
    \/ MainAppend
    \/ MainExcept
    \/ MainLoopEnd

Spec == Init /\ [][Next]_vars

\* The same program under stable network conditions: a batch in which an
\* address may occur twice, every repeated question answered as before, and no
\* failure inside validate of its own.
StableInit ==
    /\ dnsAvailable \in BOOLEAN
    /\ mxZone \in MxAnswers
    /\ settings \in SettingsChoices
    /\ sockDefaultTimeout = <<>>
    /\ openConns = 0
    /\ stable = TRUE
    /\ netMemo = <<>>
    /\ Locals
    /\ mode = "batch"
    /\ pc = "main"
    /\ callArg = <<>>
    /\ emails \in Batches

NextStable ==
    \/ LookupStart
    \/ ResolveWithDnspython
    \/ ResolveWithSocket
    \/ SmtpStart
    \/ GetMxHosts
    \/ ProbeHost
    \/ ProbeSession
    \/ SmtpExhausted
    \/ ValidateFormat
    \/ ValidateDomain
    \/ ValidateMailbox
    \/ MainStart
    \/ MainLoopNext
    \/ MainAppend
    \/ MainLoopEnd

StableSpec == StableInit /\ [][NextStable]_vars

\* ------------------------------------------------------------------ claims

AllBlank(s) == \A i \in 1..Len(s) : s[i] = " "

LookupReturned == lookupResult.status # "none"

SmtpReturned == smtpResult.status # "none"

Calls(kind) == {i \in 1..Len(netlog) : netlog[i].call = kind}

\* An exchange name as the DNS gives it, without its final root dot.
WithoutRootDot(raw) == SubSeq(raw, 1, Len(raw) - 1)

EndsWithDot(h) == h # <<>> /\ h[Len(h)] = "."

\* C1: in check_smtp_server the candidates are probed in list order, and a
\* probe that ends ok or unreachable is the last one of the call: its result
\* is the result returned and no later candidate is probed.
C1_ProbesInOrderUntilConclusive ==
    /\ Len(probes) <= Len(hosts)
    /\ \A i \in 1..Len(probes) :
          /\ probes[i].host = hosts[i]
          /\ probes[i].status \in {"ok", "unreachable"} =>
                /\ i = Len(probes)
                /\ pc # "probe_loop"
                /\ smtpResult.status = probes[i].status
                /\ smtpResult.message.host = hosts[i]

C1_Witness ==
    /\ mode = "smtp"
    /\ pc = "done"
    /\ Len(hosts) = 3
    /\ Len(probes) = 2
    /\ probes[1].status = "unknown"
    /\ probes[2].status = "unreachable"
    /\ smtpResult.status = "unreachable"

\* C2: for a non-empty domain d the candidate list is the MX-derived host list
\* when that list is non-empty and otherwise exactly mail.d, mx.d, d; the
\* heuristic hosts stand in only for an empty MX list (a failed and swallowed
\* resolution included), and no host outside the candidate list is probed.
C2_CandidateList ==
    (smtpMx.kind # "none" /\ pc \in {"probe_loop", "smtp_session", "done", "validate_mailbox", "main_append"}) =>
        LET mx == IF smtpMx.kind = "answer"
                  THEN [i \in 1..Len(smtpMx.records) |-> WithoutRootDot(smtpMx.records[i])]
                  ELSE <<>>
        IN  /\ domain # <<>>
            /\ mx # <<>> => hosts = mx
            /\ mx = <<>> =>
                  /\ Len(hosts) = 3
                  /\ hosts[1] = <<"m", "a", "i", "l", ".">> \o domain
                  /\ hosts[2] = <<"m", "x", ".">> \o domain
                  /\ hosts[3] = domain
            /\ \A i \in 1..Len(probes) : \E j \in 1..Len(hosts) : probes[i].host = hosts[j]

C2_Witness ==
    /\ mode = "smtp"
    /\ pc = "done"
    /\ dnsAvailable
    /\ smtpMx.kind = "error"
    /\ Len(probes) = 3
    /\ probes[3].host = domain

\* C3: one host probe is classified ok for a reply code in 200..399,
\* unreachable for any other reply code and for a timeout, a server disconnect
\* or a refused connection, unknown for any other exception.  (The reply-code
\* cases are read for a session whose QUIT is answered 221.)
C3_ProbeClassification ==
    lastProbe.status # "none" =>
        LET o == lastProbe.outcome
        IN  /\ (o.noop = "reply" /\ o.quit = "221") =>
                  lastProbe.status =
                      IF 200 <= o.code /\ o.code <= 399 THEN "ok" ELSE "unreachable"
            /\ (o.conn \in {"socket.timeout", "SMTPServerDisconnected",
                            "ConnectionRefusedError", "SMTPConnectError"}) =>
                  lastProbe.status = "unreachable"
            /\ (o.noop \in {"socket.timeout", "SMTPServerDisconnected"}
                    /\ o.quit \in {"221", "SMTPServerDisconnected"}) =>
                  lastProbe.status = "unreachable"
            /\ (o.conn = "gaierror" \/ (o.noop = "SMTPDataError" /\ o.quit = "221")) =>
                  lastProbe.status = "unknown"

\* C4: lookup_domain calls the socket resolution exactly when the MX library is
\* absent; an MX query that was made and failed is answered with its invalid,
\* method=dnspython result, and no socket resolution follows it.
C4_FallbackIffLibraryAbsent ==
    /\ pc # "raised"
    /\ pc = "resolve_with_socket" => ~dnsAvailable
    /\ Calls("getaddrinfo") # {} => ~dnsAvailable
    /\ (LookupReturned /\ lookupResult.method # "none" /\ ~dnsAvailable) =>
          /\ Cardinality(Calls("getaddrinfo")) = 1
          /\ lookupResult.method = "socket"
    /\ (lastMx.kind = "error" /\ dnsAvailable
            /\ pc \notin {"lookup_domain", "resolve_with_dnspython"}) =>
          /\ lookupResult.method = "dnspython"
          /\ lookupResult.status = "invalid"
          /\ lookupResult.message.exc = lastMx.exc

C4_Witness ==
    /\ mode = "lookup"
    /\ pc = "done"
    /\ dnsAvailable
    /\ lastMx.kind = "error"
    /\ lookupResult.method = "dnspython"
    /\ lookupResult.status = "invalid"
    /\ Calls("getaddrinfo") = {}

\* C5: for a domain that is empty once trimmed, lookup_domain returns
\* status=invalid, method=none and no MX hosts, and makes no network call.
C5_EmptyDomainNoNetwork ==
    (mode = "lookup" /\ AllBlank(callArg)) =>
        /\ pc \in {"lookup_domain", "done"}
        /\ netlog = <<>>
        /\ pc = "done" =>
              /\ lookupResult.status = "invalid"
              /\ lookupResult.method = "none"
              /\ lookupResult.mx_records = <<>>

C5_Witness ==
    /\ mode = "lookup"
    /\ pc = "done"
    /\ callArg = <<" ", " ">>
    /\ lookupResult.method = "none"
    /\ netlog = <<>>

HasRealMx(zone) == \E i \in 1..Len(zone) : zone[i] # <<".">>

\* C6 as stated: for a domain with at least one real MX record lookup_domain
\* returns status=ok and a non-empty MX host list without trailing dots, in
\* every runtime, the one without the MX library included.  (A query that
\* itself fails is left aside.)
C6_OkWithMxHostsInEveryRuntime ==
    (LookupReturned /\ lookupResult.method # "none" /\ HasRealMx(mxZone)
         /\ lastMx.exc \notin MxErrors) =>
        /\ lookupResult.status = "ok"
        /\ lookupResult.mx_records # <<>>
        /\ \A i \in 1..Len(lookupResult.mx_records) :
              ~EndsWithDot(lookupResult.mx_records[i])

\* C6 as amended: where the MX library is there and the query answers with the
\* records, the result is status=ok with one host per record and no trailing
\* dot; where the library is absent the result comes from the socket fallback,
\* with method=socket and an empty MX host list.
C6_OkWithMxHostsWhereLibraryPresent ==
    (LookupReturned /\ lookupResult.method # "none" /\ HasRealMx(mxZone)) =>
        /\ (dnsAvailable /\ lastMx.kind = "answer") =>
              /\ lookupResult.status = "ok"
              /\ lookupResult.method = "dnspython"
              /\ Len(lookupResult.mx_records) = Len(mxZone)
              /\ \A i \in 1..Len(lookupResult.mx_records) :
                    ~EndsWithDot(lookupResult.mx_records[i])
        /\ ~dnsAvailable =>
              /\ lookupResult.method = "socket"
              /\ lookupResult.mx_records = <<>>

C6_Witness ==
    /\ mode = "lookup"
    /\ pc = "done"
    /\ dnsAvailable
    /\ lookupResult.status = "ok"
    /\ lookupResult.mx_records = << <<"m">>, <<"n">> >>

\* C7: in every result of lookup_domain, method=none only for a domain that is
\* empty once trimmed; the MX host list is empty unless method=dnspython and
\* records were found; and with method=dnspython, status=ok exactly when the
\* MX host list is non-empty.
C7_LookupResultInvariant ==
    LookupReturned =>
        /\ lookupResult.status \in {"ok", "invalid"}
        /\ lookupResult.method \in {"dnspython", "socket", "none"}
        /\ lookupResult.method = "none" => AllBlank(callArg)
        /\ lookupResult.mx_records # <<>> =>
              /\ lookupResult.method = "dnspython"
              /\ lastMx.kind = "answer"
              /\ lastMx.records # <<>>
        /\ lookupResult.method = "dnspython" =>
              (lookupResult.status = "ok" <=> lookupResult.mx_records # <<>>)

C7_Witness ==
    /\ mode = "lookup"
    /\ pc = "done"
    /\ lookupResult.method = "dnspython"
    /\ lookupResult.status = "invalid"
    /\ lastMx.kind = "answer"

\* C8: check_smtp_server returns unknown only when there was no candidate (an
\* empty domain) or every candidate was probed and each probe ended unknown;
\* a probe that ended ok or unreachable excludes an unknown result.
C8_UnknownOnlyWhenNothingConclusive ==
    (SmtpReturned /\ smtpResult.status = "unknown") =>
        \/ /\ AllBlank(callArg)
           /\ hosts = <<>>
           /\ probes = <<>>
        \/ /\ hosts # <<>>
           /\ Len(probes) = Len(hosts)
           /\ \A i \in 1..Len(probes) : probes[i].status = "unknown"

C8_Witness ==
    /\ mode = "smtp"
    /\ pc = "done"
    /\ smtpResult.status = "unknown"
    /\ Len(probes) = 3
    /\ Len(hosts) = 3

\* C9: no exception leaves check_smtp_server: whatever the MX resolution and
\* each probe do, the call returns a result whose status is ok, unreachable or
\* unknown.
C9_NoExceptionEscapesProber ==
    /\ mode = "smtp" => (pc # "raised" /\ exc = "none")
    /\ (mode = "smtp" /\ pc = "done") => smtpResult.status \in {"ok", "unreachable", "unknown"}
    /\ pc = "main_except" => exc = "RuntimeError"
    /\ pc \in {"validate_mailbox", "main_append"} /\ smtpMx.kind # "none" =>
          smtpResult.status \in {"ok", "unreachable", "unknown"}

C9_Witness ==
    /\ mode = "smtp"
    /\ pc = "done"
    /\ smtpMx.kind = "error"
    /\ lastProbe.outcome.conn = "gaierror"
    /\ smtpResult.status = "unknown"

\* C10: in the batch loop an exception raised by validate becomes a verdict for
\* that address with email_status, format, mailbox_status and mailbox_type all
\* unknown and the error text as message, and the loop goes on: every address
\* of the batch gets its verdict, in order.
C10_BatchSurvivesException ==
    /\ [](mode = "batch" =>
            /\ Len(results) = idx
            /\ idx <= Len(emails)
            /\ \A i \in 1..Len(results) : results[i].email = emails[i]
            /\ pc = "done" => idx = Len(emails))
    /\ [][pc = "main_except" =>
            /\ pc' = "main_loop"
            /\ Len(results') = Len(results) + 1
            /\ SubSeq(results', 1, Len(results)) = results
            /\ LET v == results'[Len(results')]
               IN  /\ v.email = emails[idx + 1]
                   /\ v.email_status = "unknown"
                   /\ v.format = "unknown"
                   /\ v.mailbox_status = "unknown"
                   /\ v.mailbox_type = "unknown"
                   /\ v.message.exc = exc
                   /\ exc # "none"]_vars

C10_Witness ==
    /\ mode = "batch"
    /\ pc = "done"
    /\ Len(emails) = 2
    /\ Len(results) = 2
    /\ results[1].message.exc = "RuntimeError"
    /\ results[1].email_status = "unknown"
    /\ results[2].email_status = "valid"
InLookup == pc \in {"lookup_domain", "resolve_with_dnspython", "resolve_with_socket"}

InProber == pc \in {"check_smtp_server", "get_mx_hosts", "probe_loop", "smtp_session"}

\* C11: the stages run in a fixed order with short-circuiting: the resolver
\* is called only for a well-formed address and the prober only after the
\* resolver returned status=ok; a format failure makes no network call and an
\* invalid domain no SMTP probe, and both give email_status=invalid.
C11_StagesShortCircuit ==
    mode = "batch" =>
        /\ InLookup => (FormatValid(CurrentEmail) /\ smtpMx = NoMx /\ probes = <<>>)
        /\ InProber => (FormatValid(CurrentEmail) /\ lookupResult.status = "ok")
        /\ netlog # <<>> => (LookupReturned \/ InLookup)
        /\ (Calls("smtp_connect") # {} \/ probes # <<>> \/ SmtpReturned) =>
              lookupResult.status = "ok"
        /\ pc = "main_append" =>
              /\ ~FormatValid(CurrentEmail) =>
                    /\ netlog = <<>>
                    /\ ~LookupReturned
                    /\ ~SmtpReturned
                    /\ verdict.email_status = "invalid"
                    /\ verdict.format = "invalid"
              /\ (LookupReturned /\ lookupResult.status = "invalid") =>
                    /\ Calls("smtp_connect") = {}
                    /\ ~SmtpReturned
                    /\ verdict.email_status = "invalid"
                    /\ verdict.mailbox_status = "invalid"

C11_Witness ==
    /\ mode = "batch"
    /\ pc = "main_append"
    /\ lookupResult.status = "invalid"
    /\ lookupResult.method = "dnspython"
    /\ netlog # <<>>
    /\ verdict.email_status = "invalid"

\* C12: once the mailbox stage is reached, email_status is valid exactly for
\* a probe status ok, unknown for a probe status unknown and invalid for
\* unreachable; mailbox_type is unknown in every verdict.
C12_EmailStatusFromProbe ==
    mode = "batch" =>
        /\ (pc = "main_append" /\ SmtpReturned) =>
              /\ verdict.mailbox_status = smtpResult.status
              /\ verdict.email_status = "valid" <=> smtpResult.status = "ok"
              /\ verdict.email_status = "unknown" <=> smtpResult.status = "unknown"
              /\ verdict.email_status = "invalid" <=> smtpResult.status = "unreachable"
        /\ pc = "main_append" => verdict.mailbox_type = "unknown"
        /\ \A i \in 1..Len(results) : results[i].mailbox_type = "unknown"

C12_Witness ==
    /\ mode = "batch"
    /\ pc = "main_append"
    /\ smtpResult.status = "unknown"
    /\ verdict.email_status = "unknown"
    /\ Len(results) = 1
    /\ results[1].email_status = "valid"
\* C13: a configured timeout of 0 means "use the network layer's default":
\* the value 0 is never handed to a network call, whether as the resolver's
\* lifetime, as the global socket timeout or as the SMTP connection timeout.
C13_ZeroTimeoutNeverHandedOn ==
    /\ \A i \in 1..Len(netlog) : netlog[i].timeout # 0
    /\ sockDefaultTimeout # << 0 >>

\* C14: validating an address leaves no shared state changed: once
\* lookup_domain and check_smtp_server have returned, every process-wide
\* setting, the global default socket timeout included, is what it was before
\* the call.
C14_NoProcessWideChange ==
    (pc \in {"done", "validate_domain", "validate_mailbox", "main_append", "main_loop"}) =>
        sockDefaultTimeout = <<>>
\* C18: the results list holds one verdict per handled address, in input
\* order: after k addresses it has length k, whether each validation returned
\* or raised, and when the loop is over it has one verdict per input address.
C18_OneVerdictPerAddress ==
    mode = "batch" =>
        /\ Len(results) = idx
        /\ \A i \in 1..Len(results) : results[i].email = emails[i]
        /\ pc = "done" => Len(results) = Len(emails)

C18_Witness ==
    /\ mode = "batch"
    /\ pc = "done"
    /\ Len(emails) = 2
    /\ results[1].message.exc = "RuntimeError"
    /\ results[2].format = "invalid"
    /\ results[2].email = emails[2]
\* C19: lookup_domain never lets an exception out: on the socket path a
\* name-resolution error and any other error both give status=invalid with
\* method=socket and no MX hosts, a successful resolution gives status=ok with
\* method=socket and no MX hosts; every status returned is ok or invalid.
C19_LookupNeverRaises ==
    /\ mode = "lookup" => (pc # "raised" /\ exc = "none")
    /\ pc = "main_except" => exc = "RuntimeError"
    /\ (mode = "lookup" /\ pc = "done") => lookupResult.status \in {"ok", "invalid"}
    /\ (lastSock # "none" /\ ~InLookup) =>
          /\ lookupResult.method = "socket"
          /\ lookupResult.mx_records = <<>>
          /\ lookupResult.status = IF lastSock = "resolved" THEN "ok" ELSE "invalid"
          /\ lastSock # "resolved" => lookupResult.message.exc = lastSock

C19_Witness ==
    /\ mode = "lookup"
    /\ pc = "done"
    /\ lastSock = "UnicodeError"
    /\ lookupResult.status = "invalid"
    /\ lookupResult.method = "socket"
\* C15: every SMTP connection a probe opens is closed before the probe
\* returns, on a clean session and on every exception path: at most one
\* connection is open at any time, and none once check_smtp_server returned.
C15_ConnectionsClosed ==
    /\ openConns \in {0, 1}
    /\ openConns = 1 => pc = "smtp_session"
    /\ lastProbe.status # "none" /\ pc # "smtp_session" => openConns = 0
    /\ SmtpReturned => openConns = 0

C15_Witness ==
    /\ mode = "smtp"
    /\ pc = "done"
    /\ Len(probes) = 3
    /\ lastProbe.outcome.noop = "SMTPDataError"
    /\ lastProbe.outcome.quit = "other_code"
    /\ openConns = 0

TimedOut(o) ==
    o.conn = "socket.timeout" \/ o.noop = "socket.timeout" \/ o.quit = "socket.timeout"

\* C16: nothing is retried: one lookup_domain call makes at most one MX query
\* and at most one socket resolution, one check_smtp_server call at most one
\* MX query and at most one connection per candidate host, and a call that
\* timed out is never followed by a second attempt on the same target.
C16_NoRetries ==
    /\ Cardinality(Calls("getaddrinfo")) <= 1
    /\ Cardinality(Calls("mx_query")) <= (IF mode = "batch" THEN 2 ELSE 1)
    /\ (mode = "batch" /\ smtpMx = NoMx) => Cardinality(Calls("mx_query")) <= 1
    /\ \A i, j \in Calls("smtp_connect") : netlog[i].target = netlog[j].target => i = j
    /\ Cardinality(Calls("smtp_connect")) <= Len(hosts)
    /\ (lastMx.exc = "LifetimeTimeout" /\ ~InLookup) =>
          /\ Calls("getaddrinfo") = {}
          /\ Cardinality(Calls("mx_query")) = (IF smtpMx = NoMx THEN 1 ELSE 2)
    /\ (lastProbe.status # "none" /\ TimedOut(lastProbe.outcome)) =>
          /\ Cardinality({i \in Calls("smtp_connect") : netlog[i].target = lastProbe.host}) <= 1
          /\ SessionException(lastProbe.host, lastProbe.outcome) = "socket.timeout" => ~InProber

C16_Witness ==
    /\ mode = "smtp"
    /\ pc = "done"
    /\ Cardinality(Calls("smtp_connect")) = 3
    /\ Cardinality(Calls("mx_query")) = 1
    /\ lastProbe.outcome.conn = "socket.timeout"
\* The fields of a verdict other than its message.
VerdictFields(v) ==
    [email          |-> v.email,
     email_status   |-> v.email_status,
     format         |-> v.format,
     mailbox_status |-> v.mailbox_status,
     mailbox_type   |-> v.mailbox_type,
     domain         |-> v.domain]

\* What the network answered about one candidate host.
AnsweredOutcome(host) ==
    IF ~Connects(host) THEN NoSession
    ELSE IF netMemo[<<"smtp_connect", host>>] # "connected"
    THEN [conn |-> netMemo[<<"smtp_connect", host>>], noop |-> "none", code |-> 0,
          quit |-> "none"]
    ELSE netMemo[<<"smtp_session", host>>]

RECURSIVE ProbeFrom(_, _, _)
\* check_smtp_server's loop as a function of the candidates and the answers.
ProbeFrom(d, hs, k) ==
    IF k > Len(hs) THEN ExhaustedProbe(d)
    ELSE LET r == probe_smtp_host(hs[k], AnsweredOutcome(hs[k]))
         IN  IF Conclusive(r.status) THEN r ELSE ProbeFrom(d, hs, k + 1)

\* lookup_domain as a function of the domain and the answers.
LookupFrom(d) ==
    IF d = <<>> THEN EmptyDomainResult
    ELSE IF dnsAvailable THEN resolve_with_dnspython(netMemo[<<"mx_lookup", d>>])
    ELSE resolve_with_socket(netMemo[<<"getaddrinfo", d>>])

\* C17: under stable network conditions validate is idempotent: two verdicts
\* for the same address agree in every field but the message, and what
\* lookup_domain and check_smtp_server return is a function of the domain and
\* of the network's answers alone, whether or not an earlier call was made.
C17_Idempotent ==
    /\ \A i, j \in 1..Len(results) :
          emails[i] = emails[j] => VerdictFields(results[i]) = VerdictFields(results[j])
    /\ (LookupReturned /\ pc = "validate_domain") => lookupResult = LookupFrom(domain)
    /\ (SmtpReturned /\ pc = "validate_mailbox") =>
          smtpResult = ProbeFrom(domain,
                                 CandidateHosts(get_mx_hosts_via_dnspython(smtpMx).hosts, domain), 1)

C17_Witness ==
    /\ pc = "done"
    /\ Len(results) = 2
    /\ emails[1] = emails[2]
    /\ sockDefaultTimeout # <<>>
    /\ results[1].mailbox_status = "ok"
    /\ results[2].mailbox_status = "ok"
    /\ Cardinality(DOMAIN netMemo) >= 4
====
